---- MODULE Spec2Model ----
(***************************************************************************)
(* Real-time monitoring core of Hack-Nova:                                 *)
(*   backend/app/agents/realtime_monitor.py  ViolationDeduplicator,        *)
(*                                           RealtimeMonitor               *)
(*   backend/app/api/monitoring.py           pause/resume/stop routes,     *)
(*                                           _run_monitoring_pipeline,     *)
(*                                           ConnectionManager,            *)
(*                                           websocket_endpoint            *)
(*                                                                         *)
(* Five specifications share the variables:                                *)
(*   SpecDedup  a ViolationDeduplicator driven by arbitrary calls of       *)
(*              should_alert and reset;                                    *)
(*   Spec       one monitoring session: the pipeline task interleaved with *)
(*              the pause, resume and stop request handlers (the routes    *)
(*              are plain `def`s, which the framework runs on worker       *)
(*              threads, so they interleave with the task between any two  *)
(*              of its steps);                                             *)
(*   SpecRegistry  the ConnectionManager of one session: websocket         *)
(*              endpoints connecting and disconnecting, interleaved with   *)
(*              broadcasts.  All of it runs on the event loop, so a        *)
(*              broadcast is interleaved with the endpoints only where it  *)
(*              awaits send_json;                                          *)
(*   SpecSampling  undisturbed sessions over 30 fps sources whose          *)
(*              recognizer sees nothing: the frame walk alone;             *)
(*   SpecClip   one call of RealtimeMonitor._extract_clip.                 *)
(*                                                                         *)
(* Text (hazard_type, location) is a sequence of one-character strings so  *)
(* that str.lower() is computed, not assumed.  Video time is in seconds;   *)
(* the frame rates modelled are 0 and 1/den frames per second, for which   *)
(* frame_number / fps is the integer frame_number * den.                   *)
(***************************************************************************)
EXTENDS Integers, Sequences, FiniteSets, TLC

\* ------------------------------------------------------------------ bounds

\* should_alert/reset calls made on a deduplicator in SpecDedup
MaxCalls == 3
\* frames of the longest modelled video
MaxFrames == 2
\* pause/resume/stop requests made during one session
MaxRequests == 2
\* websockets that connect to the session's channel in SpecRegistry
MaxSockets == 2
\* messages broadcast in SpecRegistry
MaxMessages == 2
\* the longest duration_before and duration_after tried besides the caller's 15
MaxWindow == 2

\* ------------------------------------------------------------------ text

UpperLetters == <<"A","B","C","D","E","F","G","H","I","J","K","L","M",
                  "N","O","P","Q","R","S","T","U","V","W","X","Y","Z">>
LowerLetters == <<"a","b","c","d","e","f","g","h","i","j","k","l","m",
                  "n","o","p","q","r","s","t","u","v","w","x","y","z">>

\* str.lower() on the upper-case letters
LowerCaseOf ==
    [c \in {UpperLetters[i] : i \in 1..Len(UpperLetters)} |->
        LowerLetters[CHOOSE i \in 1..Len(UpperLetters) : UpperLetters[i] = c]]

\* str.lower() on one character: an upper-case letter becomes its lower-case
\* letter, every other character is kept
lower_char(c) == IF c \in DOMAIN LowerCaseOf THEN LowerCaseOf[c] ELSE c

\* str.lower()
lower(s) == [i \in 1..Len(s) |-> lower_char(s[i])]

\* hazard categories and locations the recognizer reports in the model
PPE_U == <<"P","P","E">>
PPE_L == <<"p","p","e">>
FALL == <<"F","a","l","l">>
SCAFFOLD == <<"S","c","a","f","f","o","l","d">>
SCAFFOLDING == <<"s","c","a","f","f","o","l","d","i","n","g">>
SCAFFOLDING_U == <<"S","C","A","F","F","O","L","D","I","N","G">>

HazardTypes == {PPE_U, PPE_L}
Locations == {SCAFFOLD, SCAFFOLDING, SCAFFOLDING_U}
\* timestamps handed to should_alert in SpecDedup (seconds)
Times == {0, 250, 300, 301}

\* ------------------------------------------------- ViolationDeduplicator

\* ViolationDeduplicator.__init__: cooldown_seconds (the default, and the
\* value start_monitoring passes)
cooldown_seconds == 300

\* self.last_seen = {}
EmptyLedger == [k \in {} |-> 0]

\* last_seen[key] = current_timestamp
Put(ledger, key, ts) ==
    [k \in DOMAIN ledger \cup {key} |-> IF k = key THEN ts ELSE ledger[k]]

\* mutant of DedupKey: the location is not lower-cased
DedupKey_FoldsHazardOnly(hazard_type, location) ==
    <<lower(hazard_type), location>>

\* key = (hazard_type.lower(), location.lower())
DedupKey(hazard_type, location) == <<lower(hazard_type), lower(location)>>

\* mutant of should_alert: > for >= in the cooldown test
should_alert_StrictCooldown(ledger, hazard_type, location, current_timestamp) ==
    LET key == DedupKey(hazard_type, location) IN
    IF key \notin DOMAIN ledger
    THEN [alert |-> TRUE, last_seen |-> Put(ledger, key, current_timestamp)]
    ELSE IF current_timestamp - ledger[key] > cooldown_seconds
         THEN [alert |-> TRUE, last_seen |-> Put(ledger, key, current_timestamp)]
         ELSE [alert |-> FALSE, last_seen |-> ledger]

\* mutant of should_alert: a suppressed sighting refreshes the entry
should_alert_RefreshOnSuppress(ledger, hazard_type, location, current_timestamp) ==
    LET key == DedupKey(hazard_type, location) IN
    IF key \notin DOMAIN ledger
    THEN [alert |-> TRUE, last_seen |-> Put(ledger, key, current_timestamp)]
    ELSE IF current_timestamp - ledger[key] >= cooldown_seconds
         THEN [alert |-> TRUE, last_seen |-> Put(ledger, key, current_timestamp)]
         ELSE [alert |-> FALSE, last_seen |-> Put(ledger, key, current_timestamp)]

\* mutant of should_alert: the first sighting is not recorded
should_alert_ForgetsAccepted(ledger, hazard_type, location, current_timestamp) ==
    LET key == DedupKey(hazard_type, location) IN
    IF key \notin DOMAIN ledger
    THEN [alert |-> TRUE, last_seen |-> ledger]
    ELSE IF current_timestamp - ledger[key] >= cooldown_seconds
         THEN [alert |-> TRUE, last_seen |-> Put(ledger, key, current_timestamp)]
         ELSE [alert |-> FALSE, last_seen |-> ledger]

\* ViolationDeduplicator.should_alert: the value returned (alert) and the
\* ledger the call leaves behind (last_seen)
should_alert(ledger, hazard_type, location, current_timestamp) ==
    LET key == DedupKey(hazard_type, location) IN
    IF key \notin DOMAIN ledger
    THEN [alert |-> TRUE, last_seen |-> Put(ledger, key, current_timestamp)]
    ELSE IF current_timestamp - ledger[key] >= cooldown_seconds
         THEN [alert |-> TRUE, last_seen |-> Put(ledger, key, current_timestamp)]
         ELSE [alert |-> FALSE, last_seen |-> ledger]

\* mutant of reset: the ledger is not cleared
reset_KeepsLedger(ledger) == ledger

\* ViolationDeduplicator.reset: self.last_seen.clear()
reset(ledger) == EmptyLedger

\* one entry of the history of calls made on a deduplicator
Call(op, hazard_type, location, ts, result) ==
    [op |-> op, hazard_type |-> hazard_type, location |-> location,
     ts |-> ts, result |-> result]

\* ---------------------------------------------------------------- inputs

\* The uploaded video as cv2.VideoCapture reports it: whether it opens, its
\* frame rate num/den (CAP_PROP_FPS; 0.0 for a source that does not open) and
\* the number of frames cap.read() delivers (CAP_PROP_FRAME_COUNT)
Video(opened, num, den, total_frames) ==
    [opened |-> opened, num |-> num, den |-> den, total_frames |-> total_frames]

\* seconds per frame of the modelled sources with a positive frame rate
FramePeriods == {10, 300}

\* CAP_PROP_FRAME_COUNT of the modelled sources: up to MaxFrames frames at
\* one frame per 10 s, up to two frames at one frame per 300 s
FrameCounts(d) == IF d = 10 THEN 0..MaxFrames ELSE {0, 1, 2}

Videos ==
    {Video(FALSE, 0, 1, 0)}
    \cup {Video(TRUE, 0, 1, n) : n \in 0..MaxFrames}
    \cup UNION {{Video(TRUE, 1, d, n) : n \in FrameCounts(d)} : d \in FramePeriods}

\* analysis_interval_seconds in half seconds: 1.5 s (the default), 10 s,
\* 20 s and 300 s
Intervals == {3, 20, 40, 600}

\* one raw observation of the recognizer (the fields the monitor reads)
Obs(hazard_type, location) == [hazard_type |-> hazard_type, location |-> location]

ObsA == Obs(PPE_U, SCAFFOLDING)
ObsB == Obs(FALL, SCAFFOLD)

\* what ImageAnalyzer.analyze_image returns for a frame in the model
ObservationLists == {<< >>, <<ObsA>>, <<ObsA, ObsB>>}

\* the lengths of OSHAMapper.map_violations' result in the model: one less
\* than the observations, as many, one more
MapperLengths(obs) == (Len(obs) - 1)..(Len(obs) + 1)

\* the external services during one session: the observation lists
\* analyze_image can return, and whether analyze_image and map_violations can
\* raise.  AnyServices: every modelled answer; QuietServices: a video without
\* hazards and services that do not fail
Services(lists, faults) == [lists |-> lists, faults |-> faults]
AnyServices == Services(ObservationLists, TRUE)
QuietServices == Services({<< >>}, FALSE)

\* one element of OSHAMapper.map_violations' result
MappedViolation == [osha_code |-> "29 CFR 1926.100", severity |-> "HIGH"]

\* the one session of the model
SessionId == "s1"

\* str() of a natural number: its decimal digits
DigitChars == <<"0", "1", "2", "3", "4", "5", "6", "7", "8", "9">>

RECURSIVE str(_)
str(n) ==
    IF n < 10 THEN <<DigitChars[n + 1]>>
    ELSE Append(str(n \div 10), DigitChars[(n % 10) + 1])

\* mutant of ViolationId: the counter is left out
ViolationId_WithoutCounter(session_id, violations_detected_) ==
    <<session_id, "_">>

\* violation_id = f"{session_id}_{violations_detected}"
ViolationId(session_id, violations_detected_) ==
    <<session_id, "_">> \o str(violations_detected_)

\* ------------------------------------------------------------------ state

VARIABLES
    \* ViolationDeduplicator.last_seen
    last_seen,
    \* history: the ledger before the last deduplicator call, and the calls
    prev_seen, calls,
    \* inputs of the session: the uploaded video, analysis_interval_seconds,
    \* and what the recognizer and the mapper can answer on its frames
    video, analysis_interval, services,
    \* the MonitoringSession row as committed
    session,
    \* monitoring.py: active_monitors (the session ids it holds)
    active_monitors,
    \* RealtimeMonitor.is_running
    is_running,
    \* position of the pipeline task, and an exception on its way out of
    \* start_monitoring
    pc, exc,
    \* the cv2.VideoCapture of _run_monitoring_pipeline and of start_monitoring
    meta_cap, cap,
    \* locals of start_monitoring
    frames_per_analysis, frame_number, analysis_count, violations_detected,
    observations, violations, idx, clip_path,
    \* the stop request handler's position, the control requests made, and
    \* the last request with its HTTP status (0 while stop_monitoring runs)
    stop_pc, requests, resp,
    \* history: on_progress calls, alerts handed to on_violation, messages
    \* handed to manager.broadcast, recognizer results
    progress_calls, alerts, broadcasts, reports,
    \* history: the sampled frames on which analyze_image or map_violations
    \* raised
    failures,
    \* history: cap.read() returned no frame; a pause was granted on the
    \* processing session and not resumed since; the stop request was granted
    \* while the session was processing
    exhausted, pause_pending, stop_on_processing,
    \* ConnectionManager.active_connections: session id -> list of websockets
    active_connections,
    \* each websocket: "new", "connected" (its endpoint waits in
    \* receive_text), "closed" (the client is gone, the endpoint has not run
    \* yet), "gone" (the endpoint's except branch has run)
    ws_state,
    \* the running broadcast: whether it is suspended in a send ("sending") or
    \* not running ("idle"), the list iterator's index, whether
    \* the list it iterates has been dropped from active_connections, the
    \* connection of the pending send, dead_connections
    bc_pc, bc_index, bc_detached, bc_conn, dead_connections,
    \* history: the subscribers when the running broadcast began, the ended
    \* broadcasts, the messages delivered, the endpoints that ended in an
    \* exception
    \* history: the websockets their own endpoint unsubscribed while the
    \* running broadcast was suspended
    bc_start, bc_log, delivered, endpoint_exc, bc_unsub,
    \* _extract_clip: its arguments (timestamp, duration_before,
    \* duration_after), its position, the exception caught, its return value
    clip_call, clip_pc, clip_exc, clip_result,
    \* _extract_clip: the VideoCapture and the VideoWriter ("none" before the
    \* constructor ran, "unopened" for a capture whose source did not open,
    \* "open", "released")
    clip_cap, clip_out,
    \* locals of _extract_clip: start_time, the position of its capture,
    \* frames_to_write, the passes of the loop made
    clip_start_time, clip_pos, clip_frames_to_write, clip_i,
    \* history: the source frames given to out.write
    clip_written

dedupVars == <<last_seen, prev_seen, calls>>
inputVars == <<video, analysis_interval, services>>
taskVars == <<pc, exc, meta_cap, cap, frames_per_analysis, frame_number,
              analysis_count, violations_detected, observations, violations,
              idx, clip_path>>
ctlVars == <<stop_pc, requests, resp>>
histVars == <<progress_calls, alerts, broadcasts, reports, exhausted,
             failures>>
flagVars == <<pause_pending, stop_on_processing>>
regVars == <<active_connections, ws_state, bc_pc, bc_index, bc_detached,
             bc_conn, dead_connections, bc_start, bc_log, delivered,
             endpoint_exc, bc_unsub>>
clipVars == <<clip_call, clip_pc, clip_exc, clip_result, clip_cap, clip_out,
              clip_start_time, clip_pos, clip_frames_to_write, clip_i,
              clip_written>>
vars == <<dedupVars, inputVars, session, active_monitors, is_running, taskVars,
          ctlVars, histVars, flagVars, regVars, clipVars>>

\* what a control route answers: the status code of its return or of its
\* HTTPException
Response(op, code) == [op |-> op, code |-> code]

\* start_monitoring_session: the row as created, before the task runs
NewSession ==
    [status |-> "pending", completed_at |-> FALSE, current_frame |-> 0,
     current_timestamp |-> 0, violations_detected_count |-> 0]

SessionInit ==
    /\ session = NewSession
    /\ active_monitors = {}
    /\ is_running = FALSE
    /\ pc = "pending" /\ exc = "none"
    /\ meta_cap = "none" /\ cap = "none"
    /\ frames_per_analysis = 0 /\ frame_number = 0
    /\ analysis_count = 0 /\ violations_detected = 0
    /\ observations = << >> /\ violations = << >> /\ idx = 0
    /\ clip_path = "None"
    /\ stop_pc = "idle" /\ requests = 0 /\ resp = Response("none", 0)
    /\ progress_calls = << >> /\ alerts = << >> /\ broadcasts = << >>
    /\ reports = << >> /\ failures = << >>
    /\ exhausted = FALSE /\ pause_pending = FALSE /\ stop_on_processing = FALSE

\* manager = ConnectionManager(): no connection; no broadcast running
RegistryInit ==
    /\ active_connections = [k \in {} |-> << >>]
    /\ ws_state = [w \in 1..MaxSockets |-> "new"]
    /\ bc_pc = "idle" /\ bc_index = 0 /\ bc_detached = FALSE /\ bc_conn = 0
    /\ dead_connections = << >>
    /\ bc_start = << >> /\ bc_log = << >> /\ delivered = << >>
    /\ endpoint_exc = {} /\ bc_unsub = {}

\* the arguments of one _extract_clip call
ClipCall(timestamp, duration_before, duration_after) ==
    [timestamp |-> timestamp, duration_before |-> duration_before,
     duration_after |-> duration_after]

\* no _extract_clip call has begun; the windows are the caller's 15 and 15
ClipInit ==
    /\ clip_call = ClipCall(0, 15, 15)
    /\ clip_pc = "call" /\ clip_exc = "none" /\ clip_result = "pending"
    /\ clip_cap = "none" /\ clip_out = "none"
    /\ clip_start_time = 0 /\ clip_pos = 0 /\ clip_frames_to_write = 0
    /\ clip_i = 0 /\ clip_written = << >>

DedupInit == last_seen = EmptyLedger /\ prev_seen = EmptyLedger /\ calls = << >>

\* --------------------------------------------- SpecDedup: the deduplicator

CallShouldAlert ==
    /\ Len(calls) < MaxCalls
    /\ \E h \in HazardTypes, l \in Locations, t \in Times :
          LET r == should_alert(last_seen, h, l, t) IN
          /\ last_seen' = r.last_seen
          /\ prev_seen' = last_seen
          /\ calls' = Append(calls, Call("should_alert", h, l, t, r.alert))
    /\ UNCHANGED <<inputVars, session, active_monitors, is_running, taskVars,
                   ctlVars, histVars, flagVars>>
    /\ UNCHANGED <<regVars, clipVars>>

CallReset ==
    /\ Len(calls) < MaxCalls
    /\ last_seen' = reset(last_seen)
    /\ prev_seen' = last_seen
    /\ calls' = Append(calls, Call("reset", << >>, << >>, 0, FALSE))
    /\ UNCHANGED <<inputVars, session, active_monitors, is_running, taskVars,
                   ctlVars, histVars, flagVars>>
    /\ UNCHANGED <<regVars, clipVars>>

InitDedup ==
    /\ DedupInit
    /\ SessionInit
    /\ RegistryInit
    /\ ClipInit
    /\ video = Video(FALSE, 0, 1, 0)
    /\ analysis_interval = 3
    /\ services = AnyServices

NextDedup == CallShouldAlert \/ CallReset

SpecDedup == InitDedup /\ [][NextDedup]_vars

\* ------------------------------------------------ Spec: one session

\* mutant of FramesPerAnalysis: one second's frames, whatever the interval
FramesPerAnalysis_OneSecond(v, interval) == (v.num + 0 * interval) \div v.den

\* fps * analysis_interval truncated by int(): the stride in frames
FramesPerAnalysis(v, interval) == (v.num * interval) \div (2 * v.den)

\* mutant of FrameTimestamp: every frame at 0 s
FrameTimestamp_Frozen(v, n) == 0 * n

\* mutant of FrameTimestamp: the time left to the end of the video
FrameTimestamp_CountsDown(v, n) == ((v.total_frames - n) * v.den) \div v.num

\* current_timestamp = frame_number / fps, for fps = 1/den
FrameTimestamp(v, n) == (n * v.den) \div v.num

\* cv2.VideoCapture(video_path): the handle's state after the constructor
Opened(v) == IF v.opened THEN "open" ELSE "unopened"

\* manager.broadcast(session_id, message) as seen by the session task: the
\* message is handed to the registry
Broadcast(type, n) == broadcasts' = Append(broadcasts, [type |-> type, n |-> n])

\* mutant of NextFrame: the frame after the next
NextFrame_SkipsAFrame ==
    /\ frame_number' = frame_number + 2
    /\ observations' = << >> /\ violations' = << >> /\ idx' = 0
    /\ pc' = "loop"

\* frame_number += 1; await asyncio.sleep(0.01); back to the loop condition
NextFrame ==
    /\ frame_number' = frame_number + 1
    /\ observations' = << >> /\ violations' = << >> /\ idx' = 0
    /\ pc' = "loop"

\* _run_monitoring_pipeline lines 310-317: the session becomes processing
PipelineStart ==
    /\ pc = "pending"
    /\ session' = [session EXCEPT !.status = "processing"]
    /\ pc' = "metadata"
    /\ UNCHANGED <<dedupVars, inputVars, active_monitors, is_running, exc,
                   meta_cap, cap, frames_per_analysis, frame_number,
                   analysis_count, violations_detected, observations,
                   violations, idx, clip_path, ctlVars, histVars, flagVars>>
    /\ UNCHANGED <<regVars, clipVars>>

\* lines 319-330: open the video for its metadata; total_frames / fps raises
\* ZeroDivisionError for a zero frame rate, before cap.release() and outside
\* the try of line 410, so the task ends there
PipelineMetadata ==
    /\ pc = "metadata"
    /\ IF video.num = 0
       THEN /\ meta_cap' = Opened(video)
            /\ exc' = "ZeroDivisionError"
            /\ pc' = "crashed"
       ELSE /\ meta_cap' = "released"
            /\ exc' = exc
            /\ pc' = "register"
    /\ UNCHANGED <<dedupVars, inputVars, session, active_monitors, is_running,
                   cap, frames_per_analysis, frame_number, analysis_count,
                   violations_detected, observations, violations, idx,
                   clip_path, ctlVars, histVars, flagVars>>
    /\ UNCHANGED <<regVars, clipVars>>

\* lines 332-334: monitor = RealtimeMonitor() (is_running False);
\* active_monitors[session_id] = monitor
PipelineRegister ==
    /\ pc = "register"
    /\ is_running' = FALSE
    /\ active_monitors' = active_monitors \cup {SessionId}
    /\ pc' = "enter"
    /\ UNCHANGED <<dedupVars, inputVars, session, exc, meta_cap, cap,
                   frames_per_analysis, frame_number, analysis_count,
                   violations_detected, observations, violations, idx,
                   clip_path, ctlVars, histVars, flagVars>>
    /\ UNCHANGED <<regVars, clipVars>>

\* start_monitoring lines 107-109: is_running = True, a new deduplicator
MonitorEnter ==
    /\ pc = "enter"
    /\ is_running' = TRUE
    /\ last_seen' = EmptyLedger
    /\ pc' = "open"
    /\ UNCHANGED <<prev_seen, calls, inputVars, session, active_monitors, exc,
                   meta_cap, cap, frames_per_analysis, frame_number,
                   analysis_count, violations_detected, observations,
                   violations, idx, clip_path, ctlVars, histVars, flagVars>>
    /\ UNCHANGED <<regVars, clipVars>>

\* start_monitoring lines 111-134: open the video (ValueError if it does not
\* open), duration = total_frames / fps (ZeroDivisionError for fps 0), the
\* stride and the counters; all of it before the try of line 136
MonitorOpen ==
    /\ pc = "open"
    /\ cap' = Opened(video)
    /\ IF ~video.opened
       THEN /\ exc' = "ValueError" /\ pc' = "except"
            /\ UNCHANGED <<frames_per_analysis, frame_number, analysis_count,
                           violations_detected>>
       ELSE IF video.num = 0
       THEN /\ exc' = "ZeroDivisionError" /\ pc' = "except"
            /\ UNCHANGED <<frames_per_analysis, frame_number, analysis_count,
                           violations_detected>>
       ELSE /\ frames_per_analysis' = FramesPerAnalysis(video, analysis_interval)
            /\ frame_number' = 0
            /\ analysis_count' = 0
            /\ violations_detected' = 0
            /\ exc' = exc /\ pc' = "loop"
    /\ UNCHANGED <<dedupVars, inputVars, session, active_monitors, is_running,
                   meta_cap, observations, violations, idx, clip_path, ctlVars,
                   histVars, flagVars>>
    /\ UNCHANGED <<regVars, clipVars>>

\* lines 137-151: the loop condition, cap.read(), and the stride test
\* (frame_number % 0 raises ZeroDivisionError inside the try)
MonitorLoop ==
    /\ pc = "loop"
    /\ IF ~(is_running /\ cap = "open")
       THEN /\ pc' = "finally"
            /\ UNCHANGED <<exc, frame_number, analysis_count, exhausted>>
       ELSE IF frame_number >= video.total_frames
       THEN /\ exhausted' = TRUE
            /\ pc' = "finally"
            /\ UNCHANGED <<exc, frame_number, analysis_count>>
       ELSE IF frames_per_analysis = 0
       THEN /\ exc' = "ZeroDivisionError"
            /\ pc' = "finally"
            /\ UNCHANGED <<frame_number, analysis_count, exhausted>>
       ELSE IF frame_number % frames_per_analysis = 0
       THEN /\ analysis_count' = analysis_count + 1
            /\ pc' = "progress"
            /\ UNCHANGED <<exc, frame_number, exhausted>>
       ELSE /\ frame_number' = frame_number + 1
            /\ pc' = "loop"
            /\ UNCHANGED <<exc, analysis_count, exhausted>>
    /\ UNCHANGED <<dedupVars, inputVars, session, active_monitors, is_running,
                   meta_cap, cap, frames_per_analysis, violations_detected,
                   observations, violations, idx, clip_path, ctlVars,
                   progress_calls, alerts, broadcasts, reports, flagVars>>
    /\ UNCHANGED <<regVars, clipVars>>
    /\ UNCHANGED failures

\* duration = total_frames / fps, for fps = 1/den
Duration(v) == (v.total_frames * v.den) \div v.num

\* the arguments of one on_progress call
ProgressCall(current_timestamp, duration, frame_number_) ==
    [timestamp |-> current_timestamp, duration |-> duration,
     frame |-> frame_number_]

\* mutant of MonitorProgress: on_progress is invoked twice
MonitorProgress_InvokedTwice ==
    /\ pc = "progress"
    /\ session' = [session EXCEPT
                      !.current_timestamp = FrameTimestamp(video, frame_number),
                      !.current_frame = frame_number]
    /\ progress_calls' = Append(progress_calls,
                                ProgressCall(FrameTimestamp(video, frame_number),
                                             Duration(video), frame_number))
                       \o <<ProgressCall(FrameTimestamp(video, frame_number),
                                         Duration(video), frame_number)>>
    /\ Broadcast("progress", frame_number)
    /\ pc' = "analyze"
    /\ UNCHANGED <<dedupVars, inputVars, active_monitors, is_running, exc,
                   meta_cap, cap, frames_per_analysis, frame_number,
                   analysis_count, violations_detected, observations,
                   violations, idx, clip_path, ctlVars, alerts, reports,
                   exhausted, flagVars>>
    /\ UNCHANGED <<regVars, clipVars>>
    /\ UNCHANGED failures

\* lines 153-155 and on_progress (monitoring.py 394-408)
MonitorProgress ==
    /\ pc = "progress"
    /\ session' = [session EXCEPT
                      !.current_timestamp = FrameTimestamp(video, frame_number),
                      !.current_frame = frame_number]
    /\ progress_calls' = Append(progress_calls,
                                ProgressCall(FrameTimestamp(video, frame_number),
                                             Duration(video), frame_number))
    /\ Broadcast("progress", frame_number)
    /\ pc' = "analyze"
    /\ UNCHANGED <<dedupVars, inputVars, active_monitors, is_running, exc,
                   meta_cap, cap, frames_per_analysis, frame_number,
                   analysis_count, violations_detected, observations,
                   violations, idx, clip_path, ctlVars, alerts, reports,
                   exhausted, flagVars>>
    /\ UNCHANGED <<regVars, clipVars>>
    /\ UNCHANGED failures

\* lines 157-165 and 211-212: analyze_image raises (caught, next frame),
\* returns no observation (next frame), or returns observations, for which
\* map_violations raises (caught, next frame) or returns a list, which need
\* not be as long as the observations
MonitorAnalyze ==
    /\ pc = "analyze"
    /\ \/ /\ services.faults
          /\ failures' = Append(failures,
                                [frame |-> frame_number, stage |-> "recognizer"])
          /\ NextFrame
          /\ UNCHANGED reports
       \/ \E obs \in services.lists :
             /\ reports' = Append(reports, [frame |-> frame_number, obs |-> obs])
             /\ IF obs = << >>
                THEN /\ NextFrame
                     /\ UNCHANGED failures
                ELSE \/ /\ services.faults
                        /\ failures' = Append(failures,
                                              [frame |-> frame_number,
                                               stage |-> "mapper"])
                        /\ NextFrame
                     \/ /\ \E n \in MapperLengths(obs) :
                              violations' = [i \in 1..n |-> MappedViolation]
                        /\ observations' = obs
                        /\ idx' = 1
                        /\ pc' = "observation"
                        /\ UNCHANGED <<frame_number, failures>>
    /\ UNCHANGED <<dedupVars, inputVars, session, active_monitors, is_running,
                   exc, meta_cap, cap, frames_per_analysis, analysis_count,
                   violations_detected, clip_path, ctlVars, progress_calls,
                   alerts, broadcasts, exhausted, flagVars>>
    /\ UNCHANGED <<regVars, clipVars>>

\* mutant of MonitorObservation: a suppressed observation goes on to its
\* clip and alert all the same
MonitorObservation_AlertsSuppressed ==
    /\ pc = "observation"
    /\ IF idx > Len(violations) \/ idx > Len(observations)
       THEN /\ NextFrame
            /\ UNCHANGED <<dedupVars, violations_detected>>
       ELSE LET obs == observations[idx]
                ts == FrameTimestamp(video, frame_number)
                r == should_alert(last_seen, obs.hazard_type, obs.location, ts)
            IN  /\ last_seen' = r.last_seen
                /\ prev_seen' = last_seen
                /\ calls' = Append(calls, Call("should_alert", obs.hazard_type,
                                               obs.location, ts, r.alert))
                /\ IF r.alert
                   THEN /\ violations_detected' = violations_detected + 1
                        /\ pc' = "clip"
                        /\ idx' = idx
                   ELSE /\ violations_detected' = violations_detected
                        /\ pc' = "clip"
                        /\ idx' = idx
                /\ UNCHANGED <<frame_number, observations, violations>>
    /\ UNCHANGED <<inputVars, session, active_monitors, is_running, exc,
                   meta_cap, cap, frames_per_analysis, analysis_count,
                   clip_path, ctlVars, histVars, flagVars>>
    /\ UNCHANGED <<regVars, clipVars>>

\* lines 167-175 and 208-212: the next element of enumerate(violations);
\* observations[idx] raises IndexError past the observations (caught by the
\* except of line 211, which ends the frame); the deduplicator decides
MonitorObservation ==
    /\ pc = "observation"
    /\ IF idx > Len(violations) \/ idx > Len(observations)
       THEN /\ NextFrame
            /\ UNCHANGED <<dedupVars, violations_detected>>
       ELSE LET obs == observations[idx]
                ts == FrameTimestamp(video, frame_number)
                r == should_alert(last_seen, obs.hazard_type, obs.location, ts)
            IN  /\ last_seen' = r.last_seen
                /\ prev_seen' = last_seen
                /\ calls' = Append(calls, Call("should_alert", obs.hazard_type,
                                               obs.location, ts, r.alert))
                /\ IF r.alert
                   THEN /\ violations_detected' = violations_detected + 1
                        /\ pc' = "clip"
                        /\ idx' = idx
                   ELSE /\ violations_detected' = violations_detected
                        /\ pc' = "observation"
                        /\ idx' = idx + 1
                /\ UNCHANGED <<frame_number, observations, violations>>
    /\ UNCHANGED <<inputVars, session, active_monitors, is_running, exc,
                   meta_cap, cap, frames_per_analysis, analysis_count,
                   clip_path, ctlVars, histVars, flagVars>>
    /\ UNCHANGED <<regVars, clipVars>>

\* mutant of MonitorClip: a failed extraction ends the observation without
\* an alert
MonitorClip_FailureDropsAlert ==
    /\ pc = "clip"
    /\ \E p \in {"clip", "None"} :
          /\ clip_path' = p
          /\ IF p = "None"
             THEN pc' = "observation" /\ idx' = idx + 1
             ELSE pc' = "emit" /\ idx' = idx
    /\ UNCHANGED <<dedupVars, inputVars, session, active_monitors, is_running,
                   exc, meta_cap, cap, frames_per_analysis, frame_number,
                   analysis_count, violations_detected, observations,
                   violations, ctlVars, histVars, flagVars>>
    /\ UNCHANGED <<regVars, clipVars>>

\* lines 176-183: _extract_clip returns the clip's path, or None when it failed
MonitorClip ==
    /\ pc = "clip"
    /\ \E p \in {"clip", "None"} : clip_path' = p
    /\ pc' = "emit"
    /\ UNCHANGED <<dedupVars, inputVars, session, active_monitors, is_running,
                   exc, meta_cap, cap, frames_per_analysis, frame_number,
                   analysis_count, violations_detected, observations,
                   violations, idx, ctlVars, histVars, flagVars>>
    /\ UNCHANGED <<regVars, clipVars>>

\* lines 185-207 and on_violation_detected (monitoring.py 337-391): the alert
\* is built and handed to the callback, which stores it, counts it on the
\* session row and broadcasts it
MonitorEmit ==
    /\ pc = "emit"
    /\ alerts' = Append(alerts,
                        [violation_id |-> ViolationId(SessionId, violations_detected),
                         timestamp |-> FrameTimestamp(video, frame_number),
                         frame_number |-> frame_number,
                         hazard_type |-> observations[idx].hazard_type,
                         location |-> observations[idx].location,
                         osha_code |-> violations[idx].osha_code,
                         video_clip_path |-> clip_path])
    /\ session' = [session EXCEPT !.violations_detected_count = @ + 1]
    /\ Broadcast("violation", violations_detected)
    /\ idx' = idx + 1
    /\ pc' = "observation"
    /\ UNCHANGED <<dedupVars, inputVars, active_monitors, is_running, exc,
                   meta_cap, cap, frames_per_analysis, frame_number,
                   analysis_count, violations_detected, observations,
                   violations, clip_path, ctlVars, progress_calls, reports,
                   exhausted, flagVars>>
    /\ UNCHANGED <<regVars, clipVars>>
    /\ UNCHANGED failures

\* lines 219-222: finally: cap.release(); is_running = False; then the call
\* returns, or the exception goes on to the pipeline
MonitorFinally ==
    /\ pc = "finally"
    /\ cap' = "released"
    /\ is_running' = FALSE
    /\ pc' = IF exc = "none" THEN "completed" ELSE "except"
    /\ UNCHANGED <<dedupVars, inputVars, session, active_monitors, exc,
                   meta_cap, frames_per_analysis, frame_number, analysis_count,
                   violations_detected, observations, violations, idx,
                   clip_path, ctlVars, histVars, flagVars>>
    /\ UNCHANGED <<regVars, clipVars>>

\* mutant of PipelineCompleted: the message carries the number of analyses
PipelineCompleted_ReportsAnalyses ==
    /\ pc = "completed"
    /\ session' = [session EXCEPT !.status = "completed", !.completed_at = TRUE]
    /\ Broadcast("completed", analysis_count)
    /\ pc' = "cleanup"
    /\ UNCHANGED <<dedupVars, inputVars, active_monitors, is_running, exc,
                   meta_cap, cap, frames_per_analysis, frame_number,
                   analysis_count, violations_detected, observations,
                   violations, idx, clip_path, ctlVars, progress_calls, alerts,
                   reports, exhausted, flagVars>>
    /\ UNCHANGED <<regVars, clipVars>>
    /\ UNCHANGED failures

\* monitoring.py lines 420-431: start_monitoring returned
PipelineCompleted ==
    /\ pc = "completed"
    /\ session' = [session EXCEPT !.status = "completed", !.completed_at = TRUE]
    /\ Broadcast("completed", session.violations_detected_count)
    /\ pc' = "cleanup"
    /\ UNCHANGED <<dedupVars, inputVars, active_monitors, is_running, exc,
                   meta_cap, cap, frames_per_analysis, frame_number,
                   analysis_count, violations_detected, observations,
                   violations, idx, clip_path, ctlVars, progress_calls, alerts,
                   reports, exhausted, flagVars>>
    /\ UNCHANGED <<regVars, clipVars>>
    /\ UNCHANGED failures

\* lines 433-441: start_monitoring raised
PipelineExcept ==
    /\ pc = "except"
    /\ session' = [session EXCEPT !.status = "failed"]
    /\ Broadcast("error", 0)
    /\ pc' = "cleanup"
    /\ UNCHANGED <<dedupVars, inputVars, active_monitors, is_running, exc,
                   meta_cap, cap, frames_per_analysis, frame_number,
                   analysis_count, violations_detected, observations,
                   violations, idx, clip_path, ctlVars, progress_calls, alerts,
                   reports, exhausted, flagVars>>
    /\ UNCHANGED <<regVars, clipVars>>
    /\ UNCHANGED failures

\* lines 443-446: finally: the monitor is dropped from active_monitors
PipelineCleanup ==
    /\ pc = "cleanup"
    /\ active_monitors' = active_monitors \ {SessionId}
    /\ pc' = "done"
    /\ UNCHANGED <<dedupVars, inputVars, session, is_running, exc, meta_cap,
                   cap, frames_per_analysis, frame_number, analysis_count,
                   violations_detected, observations, violations, idx,
                   clip_path, ctlVars, histVars, flagVars>>
    /\ UNCHANGED <<regVars, clipVars>>

\* the task is in the frame loop of start_monitoring with frames left to read
\* (what the histories pause_pending and stop_on_processing record of a
\* request: it met a session that was processing frames)
ProcessingFrames ==
    /\ session.status = "processing"
    /\ pc \in {"loop", "progress", "analyze", "observation", "clip", "emit"}
    /\ frames_per_analysis > 0
    /\ frame_number < video.total_frames

\* pause_monitoring (lines 205-211) and RealtimeMonitor.pause (279-282); a
\* session not in active_monitors gets 404 and nothing changes
PauseRequest ==
    /\ requests < MaxRequests
    /\ requests' = requests + 1
    /\ IF SessionId \in active_monitors
       THEN /\ is_running' = FALSE
            /\ pause_pending' = (pause_pending \/ ProcessingFrames)
            /\ resp' = Response("pause", 200)
       ELSE /\ resp' = Response("pause", 404)
            /\ UNCHANGED <<is_running, pause_pending>>
    /\ UNCHANGED <<dedupVars, inputVars, session, active_monitors, taskVars,
                   stop_pc, histVars, stop_on_processing>>
    /\ UNCHANGED <<regVars, clipVars>>

\* resume_monitoring (lines 214-220) and RealtimeMonitor.resume (284-287)
ResumeRequest ==
    /\ requests < MaxRequests
    /\ requests' = requests + 1
    /\ IF SessionId \in active_monitors
       THEN /\ is_running' = TRUE
            /\ pause_pending' = FALSE
            /\ resp' = Response("resume", 200)
       ELSE /\ resp' = Response("resume", 404)
            /\ UNCHANGED <<is_running, pause_pending>>
    /\ UNCHANGED <<dedupVars, inputVars, session, active_monitors, taskVars,
                   stop_pc, histVars, stop_on_processing>>
    /\ UNCHANGED <<regVars, clipVars>>

\* stop_monitoring lines 226-228 and RealtimeMonitor.stop (289-292):
\* is_running = False, del active_monitors[session_id]; line 239: a session
\* not in active_monitors gets 404 and nothing changes
StopRequest ==
    /\ requests < MaxRequests
    /\ stop_pc # "update"
    /\ requests' = requests + 1
    /\ IF SessionId \in active_monitors
       THEN /\ is_running' = FALSE
            /\ active_monitors' = active_monitors \ {SessionId}
            /\ stop_pc' = "update"
            /\ stop_on_processing' = ProcessingFrames
            /\ resp' = Response("stop", 0)
       ELSE /\ resp' = Response("stop", 404)
            /\ UNCHANGED <<is_running, active_monitors, stop_pc,
                           stop_on_processing>>
    /\ UNCHANGED <<dedupVars, inputVars, session, taskVars, histVars,
                   pause_pending>>
    /\ UNCHANGED <<regVars, clipVars>>

\* stop_monitoring lines 230-237: the row is marked stopped and committed,
\* and the request is answered
StopUpdate ==
    /\ stop_pc = "update"
    /\ session' = [session EXCEPT !.status = "stopped", !.completed_at = TRUE]
    /\ stop_pc' = "returned"
    /\ resp' = Response("stop", 200)
    /\ UNCHANGED <<dedupVars, inputVars, active_monitors, is_running, taskVars,
                   requests, histVars, flagVars>>
    /\ UNCHANGED <<regVars, clipVars>>

Init ==
    /\ DedupInit
    /\ SessionInit
    /\ RegistryInit
    /\ ClipInit
    /\ video \in Videos
    /\ analysis_interval \in Intervals
    /\ services = AnyServices

Task ==
    \/ PipelineStart \/ PipelineMetadata \/ PipelineRegister
    \/ MonitorEnter \/ MonitorOpen \/ MonitorLoop \/ MonitorProgress
    \/ MonitorAnalyze \/ MonitorObservation \/ MonitorClip \/ MonitorEmit
    \/ MonitorFinally
    \/ PipelineCompleted \/ PipelineExcept \/ PipelineCleanup

Next == Task \/ PauseRequest \/ ResumeRequest \/ StopRequest \/ StopUpdate

Spec == Init /\ [][Next]_vars

\* ---------------------- SpecSampling: the frame walk of undisturbed sessions

\* 30 fps sources of 1, 150, 151 and 900 frames (the last one 30 s long)
SamplingVideos == {Video(TRUE, 30, 1, n) : n \in {1, 150, 151, 900}}

\* sessions with a 5 s analysis interval on a video without hazards, the
\* services not failing and nobody pausing or stopping
InitSampling ==
    /\ DedupInit
    /\ SessionInit
    /\ RegistryInit
    /\ ClipInit
    /\ video \in SamplingVideos
    /\ analysis_interval = 10
    /\ services = QuietServices

NextSampling ==
    \/ PipelineStart \/ PipelineMetadata \/ PipelineRegister
    \/ MonitorEnter \/ MonitorOpen \/ MonitorLoop \/ MonitorProgress
    \/ MonitorAnalyze \/ MonitorFinally
    \/ PipelineCompleted \/ PipelineCleanup

SpecSampling == InitSampling /\ [][NextSampling]_vars

\* ------------------------------------- SpecRegistry: the ConnectionManager

\* the websockets of the model
Sockets == 1..MaxSockets

\* x in list
Contains(list, x) == \E i \in 1..Len(list) : list[i] = x

\* list.remove(x) on a list that holds x: the first x is taken out
list_remove(list, x) ==
    LET i == CHOOSE i \in 1..Len(list) :
                 list[i] = x /\ \A j \in 1..(i - 1) : list[j] # x
    IN  SubSeq(list, 1, i - 1) \o SubSeq(list, i + 1, Len(list))

\* the dict without the key
DelKey(conns, key) == [k \in DOMAIN conns \ {key} |-> conns[k]]

\* the dict with conns[key] = list
SetKey(conns, key, list) ==
    [k \in DOMAIN conns \cup {key} |-> IF k = key THEN list ELSE conns[k]]

\* ConnectionManager.connect after websocket.accept(): the session's list is
\* created if absent, and the websocket appended
connect(conns, websocket, session_id) ==
    SetKey(conns, session_id,
           Append(IF session_id \in DOMAIN conns THEN conns[session_id] ELSE << >>,
                  websocket))

\* mutant of disconnect: the emptied list stays in the dict
disconnect_KeepsEmptyList(conns, websocket, session_id) ==
    IF session_id \notin DOMAIN conns
    THEN [conns |-> conns, exc |-> "none"]
    ELSE IF ~Contains(conns[session_id], websocket)
    THEN [conns |-> conns, exc |-> "ValueError"]
    ELSE [conns |-> SetKey(conns, session_id,
                           list_remove(conns[session_id], websocket)),
          exc |-> "none"]

\* ConnectionManager.disconnect: the dict it leaves and the exception it
\* raises; list.remove raises ValueError for a websocket not in the list
disconnect(conns, websocket, session_id) ==
    IF session_id \notin DOMAIN conns
    THEN [conns |-> conns, exc |-> "none"]
    ELSE IF ~Contains(conns[session_id], websocket)
    THEN [conns |-> conns, exc |-> "ValueError"]
    ELSE LET list == list_remove(conns[session_id], websocket) IN
         [conns |-> IF list = << >> THEN DelKey(conns, session_id)
                    ELSE SetKey(conns, session_id, list),
          exc |-> "none"]

\* broadcast lines 72-74: for dead in dead_connections: self.disconnect(dead,
\* session_id); the first exception ends the loop
RECURSIVE CleanUp(_, _, _)
CleanUp(conns, dead, session_id) ==
    IF dead = << >>
    THEN [conns |-> conns, exc |-> "none"]
    ELSE LET r == disconnect(conns, Head(dead), session_id) IN
         IF r.exc # "none" THEN r
         ELSE CleanUp(r.conns, Tail(dead), session_id)

\* the subscribers of the session
Subscribers(conns, session_id) ==
    IF session_id \in DOMAIN conns THEN conns[session_id] ELSE << >>

\* the list object the running broadcast iterates: the session's list, or
\* the emptied list that has been dropped from the dict since
IteratedList ==
    IF bc_detached THEN << >> ELSE Subscribers(active_connections, SessionId)

\* websocket_endpoint line 249: manager.connect(websocket, session_id)
WsConnect ==
    /\ \E w \in Sockets :
          /\ ws_state[w] = "new"
          /\ active_connections' = connect(active_connections, w, SessionId)
          /\ ws_state' = [ws_state EXCEPT ![w] = "connected"]
    /\ UNCHANGED <<bc_pc, bc_index, bc_detached, bc_conn, dead_connections,
                   bc_start, bc_log, delivered, endpoint_exc, bc_unsub>>
    /\ UNCHANGED <<dedupVars, inputVars, session, active_monitors, is_running,
                   taskVars, ctlVars, histVars, flagVars, clipVars>>

\* the client of a connected websocket goes away: sends to it fail from now
\* on, and receive_text will raise WebSocketDisconnect
WsClose ==
    /\ \E w \in Sockets :
          /\ ws_state[w] = "connected"
          /\ ws_state' = [ws_state EXCEPT ![w] = "closed"]
    /\ UNCHANGED <<active_connections, bc_pc, bc_index, bc_detached, bc_conn,
                   dead_connections, bc_start, bc_log, delivered, endpoint_exc,
                   bc_unsub>>
    /\ UNCHANGED <<dedupVars, inputVars, session, active_monitors, is_running,
                   taskVars, ctlVars, histVars, flagVars, clipVars>>

\* websocket_endpoint lines 257-259: except WebSocketDisconnect:
\* manager.disconnect(websocket, session_id)
WsDisconnect ==
    /\ \E w \in Sockets :
          LET r == disconnect(active_connections, w, SessionId) IN
          /\ ws_state[w] = "closed"
          /\ active_connections' = r.conns
          /\ ws_state' = [ws_state EXCEPT ![w] = "gone"]
          /\ endpoint_exc' = IF r.exc = "none" THEN endpoint_exc
                             ELSE endpoint_exc \cup {w}
          /\ bc_detached' = (bc_detached
                               \/ (/\ bc_pc # "idle"
                                   /\ SessionId \in DOMAIN active_connections
                                   /\ SessionId \notin DOMAIN r.conns))
          /\ bc_unsub' = IF bc_pc # "idle" /\ r.conns # active_connections
                         THEN bc_unsub \cup {w} ELSE bc_unsub
    /\ UNCHANGED <<bc_pc, bc_index, bc_conn, dead_connections, bc_start,
                   bc_log, delivered>>
    /\ UNCHANGED <<dedupVars, inputVars, session, active_monitors, is_running,
                   taskVars, ctlVars, histVars, flagVars, clipVars>>

\* broadcast lines 72-74 and the return, as a step of the running broadcast:
\* the dead connections are disconnected, and the call returns or an exception
\* of disconnect leaves it
BroadcastCleanup(dead) ==
    LET r == CleanUp(active_connections, dead, SessionId) IN
    /\ active_connections' = r.conns
    /\ bc_log' = Append(bc_log,
                        [start |-> bc_start, dead |-> dead, unsub |-> bc_unsub,
                         end |-> Subscribers(r.conns, SessionId),
                         exc |-> r.exc])
    /\ bc_pc' = "idle"

\* broadcast lines 63-67: nothing to do for a session without connections
\* (or, were there one, with an empty list); otherwise dead_connections = [], the for loop takes the session's list and
\* its first element, and send_json is awaited
BroadcastBegin ==
    /\ bc_pc = "idle"
    /\ Len(bc_log) < MaxMessages
    /\ bc_start' = Subscribers(active_connections, SessionId)
    /\ dead_connections' = << >>
    /\ bc_detached' = FALSE
    /\ bc_unsub' = {}
    /\ IF Subscribers(active_connections, SessionId) # << >>
       THEN /\ bc_index' = 1
            /\ bc_conn' = active_connections[SessionId][1]
            /\ bc_pc' = "sending"
            /\ bc_log' = bc_log
       ELSE /\ bc_index' = 0
            /\ bc_conn' = bc_conn
            /\ bc_pc' = "idle"
            /\ bc_log' = Append(bc_log, [start |-> << >>, dead |-> << >>,
                                         unsub |-> {}, end |-> << >>,
                                         exc |-> "none"])
    /\ UNCHANGED <<active_connections, ws_state, delivered, endpoint_exc>>
    /\ UNCHANGED <<dedupVars, inputVars, session, active_monitors, is_running,
                   taskVars, ctlVars, histVars, flagVars, clipVars>>

\* broadcast lines 66-74: the awaited send_json returns (the message is
\* delivered), or raises for a websocket whose client is gone, which joins
\* dead_connections; then the list iterator yields the element at its index,
\* if the list is that long by now, and the next send_json is awaited; past
\* the end the loop is over and the dead connections are cleaned up
BroadcastSent ==
    /\ bc_pc = "sending"
    /\ LET ok == ws_state[bc_conn] = "connected"
           dead == IF ok THEN dead_connections
                   ELSE Append(dead_connections, bc_conn)
       IN  /\ delivered' = IF ok
                           THEN Append(delivered,
                                       [msg |-> Len(bc_log) + 1, ws |-> bc_conn])
                           ELSE delivered
           /\ dead_connections' = dead
           /\ IF bc_index < Len(IteratedList)
              THEN /\ bc_conn' = IteratedList[bc_index + 1]
                   /\ bc_index' = bc_index + 1
                   /\ bc_pc' = "sending"
                   /\ UNCHANGED <<active_connections, bc_log>>
              ELSE /\ BroadcastCleanup(dead)
                   /\ UNCHANGED <<bc_conn, bc_index>>
    /\ UNCHANGED <<ws_state, bc_detached, bc_start, endpoint_exc, bc_unsub>>
    /\ UNCHANGED <<dedupVars, inputVars, session, active_monitors, is_running,
                   taskVars, ctlVars, histVars, flagVars, clipVars>>

InitRegistry == InitDedup

NextRegistry ==
    \/ WsConnect \/ WsClose \/ WsDisconnect
    \/ BroadcastBegin \/ BroadcastSent

SpecRegistry == InitRegistry /\ [][NextRegistry]_vars

\* ------------------------------------------ SpecClip: _extract_clip alone

\* the source videos of the extractor: 1 fps sources that end before, inside
\* and after the window, a 1.5 fps source, a source reporting 0 fps and one
\* that does not open
ClipVideos ==
    {Video(TRUE, 1, 1, n) : n \in {0, 4, 40}}
        \cup {Video(TRUE, 3, 2, 10), Video(TRUE, 0, 1, 5), Video(FALSE, 1, 1, 0)}

ClipTimestamps == {0, 1, 5, 20}

ClipWindows == (0..MaxWindow) \cup {15}

ClipCalls ==
    {ClipCall(t, b, a) : t \in ClipTimestamps, b \in ClipWindows,
                         a \in ClipWindows}

\* cap.get(cv2.CAP_PROP_FPS) of a capture on v, as the pair num/den: 0 when
\* the source did not open
ClipFps(v) == IF v.opened THEN [num |-> v.num, den |-> v.den]
              ELSE [num |-> 0, den |-> 1]

ClipStartTime_Unclamped(timestamp, duration_before) ==
    timestamp - duration_before

\* line 246: start_time = max(0, timestamp - duration_before)
ClipStartTime(timestamp, duration_before) ==
    IF timestamp - duration_before > 0 THEN timestamp - duration_before ELSE 0

\* line 255: start_frame = int(start_time * fps)
ClipStartFrame(start_time, fps) == (start_time * fps.num) \div fps.den

\* lines 247 and 262: duration = duration_before + duration_after;
\* frames_to_write = int(duration * fps)
FramesToWrite(duration, fps) == (duration * fps.num) \div fps.den

\* lines 245-256: the window is computed, the capture is constructed and
\* moved to start_frame
ClipBegin ==
    /\ clip_pc = "call"
    /\ clip_start_time' =
          ClipStartTime(clip_call.timestamp, clip_call.duration_before)
    /\ clip_cap' = IF video.opened THEN "open" ELSE "unopened"
    /\ clip_pos' = ClipStartFrame(clip_start_time', ClipFps(video))
    /\ clip_pc' = "writer"
    /\ UNCHANGED <<clip_call, clip_exc, clip_result, clip_out,
                   clip_frames_to_write, clip_i, clip_written>>
    /\ UNCHANGED <<dedupVars, inputVars, session, active_monitors, is_running,
                   taskVars, ctlVars, histVars, flagVars, regVars>>

\* lines 259-262: the writer is constructed and the frame budget computed; a
\* cv2.error of the constructor leaves through the except branch
ClipWriter ==
    /\ clip_pc = "writer"
    /\ \/ /\ clip_out' = "open"
          /\ clip_frames_to_write' =
                FramesToWrite(clip_call.duration_before
                                 + clip_call.duration_after,
                              ClipFps(video))
          /\ clip_pc' = "copy"
          /\ UNCHANGED clip_exc
       \/ /\ clip_exc' = "cv2.error"
          /\ clip_pc' = "except"
          /\ UNCHANGED <<clip_out, clip_frames_to_write>>
    /\ UNCHANGED <<clip_call, clip_result, clip_cap, clip_start_time, clip_pos,
                   clip_i, clip_written>>
    /\ UNCHANGED <<dedupVars, inputVars, session, active_monitors, is_running,
                   taskVars, ctlVars, histVars, flagVars, regVars>>

\* cap.read() of the extractor's capture returns a frame
ClipReadable == video.opened /\ clip_pos >= 0 /\ clip_pos < video.total_frames

\* lines 263-267: one pass of `for _ in range(frames_to_write)`: the range is
\* used up, or the read fails and the loop breaks, or the frame is written, or
\* out.write raises
ClipCopy ==
    /\ clip_pc = "copy"
    /\ IF clip_i >= clip_frames_to_write \/ ~ClipReadable
       THEN /\ clip_pc' = "release"
            /\ UNCHANGED <<clip_exc, clip_pos, clip_i, clip_written>>
       ELSE \/ /\ clip_written' = Append(clip_written, clip_pos)
               /\ clip_pos' = clip_pos + 1
               /\ clip_i' = clip_i + 1
               /\ UNCHANGED <<clip_pc, clip_exc>>
            \/ /\ clip_exc' = "cv2.error"
               /\ clip_pos' = clip_pos + 1
               /\ clip_pc' = "except"
               /\ UNCHANGED <<clip_i, clip_written>>
    /\ UNCHANGED <<clip_call, clip_result, clip_cap, clip_out, clip_start_time,
                   clip_frames_to_write>>
    /\ UNCHANGED <<dedupVars, inputVars, session, active_monitors, is_running,
                   taskVars, ctlVars, histVars, flagVars, regVars>>

\* lines 269-273: cap.release(); out.release(); return output_path
ClipRelease ==
    /\ clip_pc = "release"
    /\ clip_cap' = "released"
    /\ clip_out' = "released"
    /\ clip_result' = "clip"
    /\ clip_pc' = "done"
    /\ UNCHANGED <<clip_call, clip_exc, clip_start_time, clip_pos,
                   clip_frames_to_write, clip_i, clip_written>>
    /\ UNCHANGED <<dedupVars, inputVars, session, active_monitors, is_running,
                   taskVars, ctlVars, histVars, flagVars, regVars>>

\* lines 275-277: except Exception: the error is logged and None returned
ClipExcept ==
    /\ clip_pc = "except"
    /\ clip_result' = "None"
    /\ clip_pc' = "done"
    /\ UNCHANGED <<clip_call, clip_exc, clip_cap, clip_out, clip_start_time,
                   clip_pos, clip_frames_to_write, clip_i, clip_written>>
    /\ UNCHANGED <<dedupVars, inputVars, session, active_monitors, is_running,
                   taskVars, ctlVars, histVars, flagVars, regVars>>

InitClip ==
    /\ DedupInit
    /\ SessionInit
    /\ RegistryInit
    /\ video \in ClipVideos
    /\ analysis_interval = 3
    /\ services = QuietServices
    /\ clip_call \in ClipCalls
    /\ clip_pc = "call" /\ clip_exc = "none" /\ clip_result = "pending"
    /\ clip_cap = "none" /\ clip_out = "none"
    /\ clip_start_time = 0 /\ clip_pos = 0 /\ clip_frames_to_write = 0
    /\ clip_i = 0 /\ clip_written = << >>

NextClip == ClipBegin \/ ClipWriter \/ ClipCopy \/ ClipRelease \/ ClipExcept

SpecClip == InitClip /\ [][NextClip]_vars

\* --------------------------------------------- claims on the deduplicator

LastCall == calls[Len(calls)]

\* a and b are the same character up to letter case
SameLetter(a, b) ==
    \/ a = b
    \/ \E i \in 1..Len(UpperLetters) :
          \/ a = UpperLetters[i] /\ b = LowerLetters[i]
          \/ a = LowerLetters[i] /\ b = UpperLetters[i]

\* s and t differ at most in letter case
EqualIgnoringCase(s, t) ==
    /\ Len(s) = Len(t)
    /\ \A i \in 1..Len(s) : SameLetter(s[i], t[i])

\* C6: should_alert returns true iff the call's DedupKey is absent from the
\* ledger or timestamp - last_accepted >= 300; and of three successive calls
\* with one key at t, t+250 and t+301, the first being accepted, the second is
\* suppressed and the third accepted.
C6_ShouldAlertDecision ==
    /\ (calls # << >> /\ LastCall.op = "should_alert") =>
          LET key == DedupKey(LastCall.hazard_type, LastCall.location) IN
          LastCall.result =
              (\/ key \notin DOMAIN prev_seen
               \/ LastCall.ts - prev_seen[key] >= 300)
    /\ \A i \in 1..Len(calls) :
          LET SameKeyAt(j, t) ==
                  /\ j <= Len(calls)
                  /\ calls[j].op = "should_alert"
                  /\ calls[j].ts = t
                  /\ lower(calls[j].hazard_type) = lower(calls[i].hazard_type)
                  /\ lower(calls[j].location) = lower(calls[i].location)
          IN  (calls[i].op = "should_alert" /\ calls[i].result) =>
                 /\ SameKeyAt(i + 1, calls[i].ts + 250) => ~calls[i + 1].result
                 /\ (SameKeyAt(i + 1, calls[i].ts + 250)
                       /\ SameKeyAt(i + 2, calls[i].ts + 301))
                      => calls[i + 2].result

\* C6 witness: PPE at scaffolding accepted at 0 s, suppressed at 250 s,
\* accepted at 301 s
C6_Witness ==
    calls = <<Call("should_alert", PPE_U, SCAFFOLDING, 0, TRUE),
              Call("should_alert", PPE_U, SCAFFOLDING, 250, FALSE),
              Call("should_alert", PPE_U, SCAFFOLDING, 301, TRUE)>>

\* C7: a should_alert call that returns false leaves the ledger as it was; a
\* call that returns true sets the entry of its own key to its timestamp and
\* changes no other entry.
C7_LedgerFrame ==
    (calls # << >> /\ LastCall.op = "should_alert") =>
        LET key == DedupKey(LastCall.hazard_type, LastCall.location) IN
        /\ ~LastCall.result => last_seen = prev_seen
        /\ LastCall.result =>
              /\ DOMAIN last_seen = DOMAIN prev_seen \cup {key}
              /\ last_seen[key] = LastCall.ts
              /\ \A k \in DOMAIN prev_seen \ {key} : last_seen[k] = prev_seen[k]

\* C7 witness: with two keys in the ledger, the second accepted beside the
\* first, a third call is suppressed
C7_Witness ==
    /\ Len(calls) = 3
    /\ calls[1].op = "should_alert" /\ calls[1].result
    /\ calls[2].op = "should_alert" /\ calls[2].result
    /\ calls[3].op = "should_alert" /\ ~calls[3].result
    /\ calls[3].ts > calls[1].ts
    /\ Cardinality(DOMAIN last_seen) = 2

\* C8: a should_alert call is suppressed exactly when, since the last reset,
\* a call whose category and location equal its own up to letter case (and
\* nothing else) was accepted and the latest such call is less than 300 s
\* before it.
C8_CaseInsensitiveMatching ==
    (calls # << >> /\ LastCall.op = "should_alert") =>
        LET n == Len(calls)
            Matching == {j \in 1..(n - 1) :
                            /\ calls[j].op = "should_alert"
                            /\ calls[j].result
                            /\ \A m \in (j + 1)..(n - 1) : calls[m].op # "reset"
                            /\ EqualIgnoringCase(calls[j].hazard_type,
                                                 LastCall.hazard_type)
                            /\ EqualIgnoringCase(calls[j].location,
                                                 LastCall.location)}
            latest == CHOOSE j \in Matching : \A m \in Matching : m <= j
        IN  LastCall.result =
               (\/ Matching = {}
                \/ LastCall.ts - calls[latest].ts >= 300)

\* C8 witness: 'PPE' at 'scaffolding' accepted, 'ppe' at 'SCAFFOLDING'
\* suppressed by it, 'PPE' at 'Scaffold' accepted beside it
C8_Witness ==
    calls = <<Call("should_alert", PPE_U, SCAFFOLDING, 0, TRUE),
              Call("should_alert", PPE_L, SCAFFOLDING_U, 250, FALSE),
              Call("should_alert", PPE_U, SCAFFOLD, 250, TRUE)>>

\* C9: the should_alert call that follows a reset returns true, whatever was
\* called before the reset and whatever its timestamp.
C9_ResetForgets ==
    \A n \in 2..Len(calls) :
        (calls[n].op = "should_alert" /\ calls[n - 1].op = "reset")
            => calls[n].result

\* C9 witness: a key accepted at 250 s, a reset, and the same key (in another
\* case) accepted at the earlier timestamp 0 s
C9_Witness ==
    calls = <<Call("should_alert", PPE_U, SCAFFOLDING, 250, TRUE),
              Call("reset", << >>, << >>, 0, FALSE),
              Call("should_alert", PPE_L, SCAFFOLDING_U, 0, TRUE)>>

\* ------------------------------------------------- claims on the registry

\* the times message k was delivered to websocket w
Deliveries(k, w) ==
    Cardinality({i \in 1..Len(delivered) : delivered[i] = [msg |-> k, ws |-> w]})

\* C11: in a broadcast in which a send failed, no exception leaves the call,
\* every websocket whose send failed is out of the session's subscribers when
\* the call ends, and every other websocket subscribed at the start and still
\* subscribed at the end has received the message; when the one subscriber's
\* send fails, no subscriber of the start is left.
C11_BroadcastIsolatesFailures ==
    \A k \in 1..Len(bc_log) :
        LET b == bc_log[k] IN
        b.dead # << >> =>
            /\ b.exc = "none"
            /\ \A i \in 1..Len(b.dead) : ~Contains(b.end, b.dead[i])
            /\ \A i \in 1..Len(b.start) :
                  (~Contains(b.dead, b.start[i]) /\ Contains(b.end, b.start[i]))
                      => Deliveries(k, b.start[i]) >= 1
            /\ (Len(b.start) = 1 /\ b.dead = b.start) =>
                  \A i \in 1..Len(b.end) : ~Contains(b.start, b.end[i])

\* C12: in a broadcast during which a websocket's own endpoint unsubscribed
\* it, every other websocket that was subscribed when the broadcast began,
\* is still subscribed when it ends, and whose send did not fail, has received
\* the message exactly once.
C12_NoObserverSkipped ==
    \A k \in 1..Len(bc_log) :
        LET b == bc_log[k] IN
        b.unsub # {} =>
            \A i \in 1..Len(b.start) :
                ( /\ b.start[i] \notin b.unsub
                  /\ Contains(b.end, b.start[i])
                  /\ ~Contains(b.dead, b.start[i]) )
                    => Deliveries(k, b.start[i]) = 1

\* C13: no broadcast ends in an exception, whatever the endpoints did while
\* it was suspended.
C13_BroadcastNeverRaises ==
    \A k \in 1..Len(bc_log) : bc_log[k].exc = "none"

\* C14: no session key of active_connections maps to an empty list: the key
\* is dropped with its last websocket.
C14_NoEmptyEntry ==
    \A k \in DOMAIN active_connections : active_connections[k] # << >>

\* C14 witness: websockets have connected, one was unsubscribed by its
\* endpoint, a broadcast has pruned a dead one, and the session's key is gone
C14_Witness ==
    /\ DOMAIN active_connections = {}
    /\ \E w \in Sockets : ws_state[w] = "gone" /\ w \notin endpoint_exc
    /\ \E k \in 1..Len(bc_log) :
          bc_log[k].dead # << >> /\ bc_log[k].end = << >> /\ bc_log[k].unsub = {}

\* --------------------------------------------------- claims on the session

\* the task is past the frame loop of start_monitoring
LoopLeft == pc \in {"finally", "completed", "except", "cleanup", "done"}

\* a "completed" message was handed to the registry
CompletedBroadcast == \E i \in 1..Len(broadcasts) : broadcasts[i].type = "completed"

\* C1: while a pause granted on a processing session has not been followed by
\* a resume, no progress and no violation callback is invoked, and (as long
\* as no stop is requested and frames are left) the session stays in its frame
\* loop, processing, so that a resume continues it; the frame index never
\* goes back.
C1_PauseSuspendsUntilResume ==
    [][ /\ (pause_pending /\ pause_pending') =>
              (progress_calls' = progress_calls /\ alerts' = alerts)
        /\ (pause_pending' /\ stop_pc' = "idle" /\ ~exhausted' /\ exc' = "none") =>
              (~LoopLeft' /\ session'.status = "processing")
        /\ (pc = "loop" /\ pc' = "loop") => frame_number' >= frame_number
      ]_vars

\* C2: once the stop request granted on a processing session has been
\* answered and the pipeline task has ended, the persisted state is 'stopped'
\* with a completion time.
C2_StopIsFinal ==
    (stop_on_processing /\ stop_pc = "returned" /\ pc = "done") =>
        (session.status = "stopped" /\ session.completed_at)

\* C3: once the stop request has been answered, no progress and no violation
\* callback is invoked.
C3_NoCallbackAfterStop ==
    [][ stop_pc = "returned" =>
           (progress_calls' = progress_calls /\ alerts' = alerts) ]_vars

\* C4: the session is marked completed, and a 'completed' message is
\* broadcast, only when the frames of the source have all been read.
C4_CompletedOnlyWhenExhausted ==
    (session.status = "completed" \/ CompletedBroadcast) =>
        (exhausted \/ frame_number >= video.total_frames)

\* C5: when the session task has ended, on whatever path, no decode handle it
\* opened is still open.
C5_HandleReleasedOnExit ==
    pc \in {"done", "crashed"} => (cap # "open" /\ meta_cap # "open")

\* the alert and the call (or the two alerts) are about one DedupKey
SameKey(a, b) ==
    /\ EqualIgnoringCase(a.hazard_type, b.hazard_type)
    /\ EqualIgnoringCase(a.location, b.location)

\* the recognizer's result reports[i] holds an observation of o's key
Reported(i, o) ==
    \E j \in 1..Len(reports[i].obs) : SameKey(reports[i].obs[j], o)

\* the frame of reports[i] has been dealt with
FrameDone(i) == frame_number > reports[i].frame \/ LoopLeft

\* C10 as claimed: when the recognizer reports a key for the first time on one
\* sampled frame and again on a later sampled frame less than 300 s after it,
\* then, the later frame dealt with, exactly one alert of that key has been
\* emitted up to that frame, and it is the earlier frame's.
C10_ExactlyOneAtEarlierFrame ==
    \A i1 \in 1..Len(reports), i2 \in 1..Len(reports), o \in {ObsA, ObsB} :
        ( /\ i1 < i2
          /\ Reported(i1, o) /\ Reported(i2, o)
          /\ \A i0 \in 1..(i1 - 1) : ~Reported(i0, o)
          /\ FrameTimestamp(video, reports[i2].frame)
               - FrameTimestamp(video, reports[i1].frame) < 300
          /\ FrameDone(i2) )
        => LET emitted == {a \in 1..Len(alerts) :
                              /\ SameKey(alerts[a], o)
                              /\ alerts[a].frame_number <= reports[i2].frame}
           IN  /\ Cardinality(emitted) = 1
               /\ \A a \in emitted : alerts[a].frame_number = reports[i1].frame

\* C10 as amended: every alert is a sighting the deduplicator accepted, at
\* that sighting's timestamp; an alert and an accepted sighting of one key are
\* simultaneous or at least 300 s apart (so after an accepted sighting no
\* alert of its key follows within 300 s); and two alerts of one key are at
\* least 300 s apart.
C10_AlertsSpacedByCooldown ==
    /\ \A a \in 1..Len(alerts) :
          \E c \in 1..Len(calls) :
             /\ calls[c].result
             /\ calls[c].hazard_type = alerts[a].hazard_type
             /\ calls[c].location = alerts[a].location
             /\ calls[c].ts = alerts[a].timestamp
    /\ \A a \in 1..Len(alerts), c \in 1..Len(calls) :
          (calls[c].result /\ SameKey(alerts[a], calls[c])) =>
             \/ alerts[a].timestamp = calls[c].ts
             \/ alerts[a].timestamp - calls[c].ts >= 300
             \/ calls[c].ts - alerts[a].timestamp >= 300
    /\ \A a \in 1..Len(alerts), b \in 1..Len(alerts) :
          (a < b /\ SameKey(alerts[a], alerts[b])) =>
             alerts[b].timestamp - alerts[a].timestamp >= 300

\* C10 witness: 'PPE' at 'scaffolding' reported on the frames at 0 s and 10 s
\* and mapped both times; one alert, at 0 s, and the second sighting suppressed
C10_Witness ==
    /\ video.den = 10
    /\ Len(reports) = 2
    /\ reports[1] = [frame |-> 0, obs |-> <<ObsA>>]
    /\ reports[2] = [frame |-> 1, obs |-> <<ObsA>>]
    /\ calls = <<Call("should_alert", PPE_U, SCAFFOLDING, 0, TRUE),
                 Call("should_alert", PPE_U, SCAFFOLDING, 10, FALSE)>>
    /\ Len(alerts) = 1
    /\ alerts[1].timestamp = 0
    /\ frame_number = 2

\* the monitor and the session row are as they were
ControlStateUnchanged ==
    /\ is_running' = is_running
    /\ active_monitors' = active_monitors
    /\ session' = session

\* C15: a pause request on a session that is paused (and not stopped), a
\* resume request on a session that is processing frames and not paused, and
\* a stop request on a session whose stop has been answered, are each answered
\* with success and change neither the monitor nor the session row.
C15_ControlRequestsIdempotent ==
    [][ requests' = requests + 1 =>
          /\ (resp'.op = "pause" /\ pause_pending /\ stop_pc = "idle") =>
                (resp'.code = 200 /\ ControlStateUnchanged)
          /\ (resp'.op = "resume" /\ ProcessingFrames /\ is_running
                /\ stop_pc = "idle") =>
                (resp'.code = 200 /\ ControlStateUnchanged)
          /\ (resp'.op = "stop" /\ stop_pc = "returned") =>
                (resp'.code = 200 /\ ControlStateUnchanged)
      ]_vars

\* an 'error' message was handed to the registry
ErrorBroadcast == \E i \in 1..Len(broadcasts) : broadcasts[i].type = "error"

\* C16: when the video does not open, the session task ends with the session
\* 'failed' and an 'error' message broadcast, and before and after that no
\* frame is handed to the recognizer and no progress or violation callback is
\* invoked.
C16_UnreadableSourceFails ==
    ~video.opened =>
        /\ progress_calls = << >> /\ alerts = << >> /\ reports = << >>
        /\ pc \in {"done", "crashed"} =>
              (session.status = "failed" /\ ErrorBroadcast)

\* analyze_image was called on frame n
Analyzed(n) ==
    \/ \E i \in 1..Len(reports) : reports[i].frame = n
    \/ \E i \in 1..Len(failures) : failures[i].frame = n

\* C17: the step in which analyze_image or map_violations raises on a sampled
\* frame moves on to the next frame (the frame index grows by one) and leaves
\* the session as it is, with no exception on its way out; no alert is ever
\* emitted for that frame; and a session with such a frame that nobody paused
\* or stopped ends completed, its source exhausted and every frame on the
\* sampling stride analyzed.
C17_FrameFailureAbsorbed ==
    [][ /\ Len(failures') > Len(failures) =>
              /\ frame_number' = frame_number + 1
              /\ pc' = "loop"
              /\ exc' = "none"
              /\ session' = session
              /\ alerts' = alerts
        /\ \A i \in 1..Len(failures'), a \in 1..Len(alerts') :
              alerts'[a].frame_number # failures'[i].frame
        /\ (pc' = "done" /\ failures' # << >> /\ requests' = 0) =>
              /\ session'.status = "completed"
              /\ exhausted'
              /\ \A n \in 0..(video.total_frames - 1) :
                    n % frames_per_analysis = 0 => Analyzed(n)'
      ]_vars

\* C17 witness: map_violations raised on frame 0, frame 1 was analyzed and
\* gave an alert, and the session completed without a control request
C17_Witness ==
    /\ pc = "done" /\ session.status = "completed" /\ requests = 0
    /\ \E i \in 1..Len(failures) :
          failures[i] = [frame |-> 0, stage |-> "mapper"]
    /\ \E a \in 1..Len(alerts) : alerts[a].frame_number = 1

\* observation o of the frame being analyzed has been passed to should_alert
PassedToDeduplicator(o) ==
    \E c \in 1..Len(calls) :
        /\ calls[c].op = "should_alert"
        /\ calls[c].hazard_type = o.hazard_type
        /\ calls[c].location = o.location
        /\ calls[c].ts = FrameTimestamp(video, frame_number)

\* C18: when the frame of a mapper result whose length differs from the
\* number of observations is left, the frame has not been ended by an error
\* and every observation of the frame has been passed to the deduplicator.
C18_UnmatchedObservationsKept ==
    [][ ( /\ pc = "observation" /\ pc' = "loop"
          /\ Len(violations) # Len(observations) ) =>
            /\ ~(idx <= Len(violations) /\ idx > Len(observations))
            /\ \A i \in 1..Len(observations) :
                  PassedToDeduplicator(observations[i])
      ]_vars

\* the should_alert calls that returned true
Accepted == {c \in 1..Len(calls) : calls[c].op = "should_alert" /\ calls[c].result}

C20_AlertTimestampsNonDecreasing ==
    \A a \in 1..Len(alerts), b \in 1..Len(alerts) :
        a < b =>
            /\ alerts[a].timestamp <= alerts[b].timestamp
            /\ alerts[a].frame_number <= alerts[b].frame_number

\* C20 witness: two alerts on frame 0 and a third on frame 1, 300 s later
C20_Witness ==
    /\ Len(alerts) = 3
    /\ alerts[1].timestamp = 0 /\ alerts[2].timestamp = 0
    /\ alerts[3].timestamp = 300 /\ alerts[3].frame_number = 1

\* C21 as claimed: of two alerts of the session, the one emitted later has a
\* strictly greater timestamp.
C21_StrictlyIncreasingTimestamps ==
    \A a \in 1..Len(alerts), b \in 1..Len(alerts) :
        a < b => alerts[a].timestamp < alerts[b].timestamp

\* C21 as amended: of two alerts of the session, either they come from one
\* sampled frame, carry the same timestamp and are about different keys, or
\* the one emitted later comes from a later frame and has a strictly greater
\* timestamp.
C21_StrictAcrossFrames ==
    \A a \in 1..Len(alerts), b \in 1..Len(alerts) :
        a < b =>
            \/ /\ alerts[a].frame_number = alerts[b].frame_number
               /\ alerts[a].timestamp = alerts[b].timestamp
               /\ ~SameKey(alerts[a], alerts[b])
            \/ /\ alerts[a].frame_number < alerts[b].frame_number
               /\ alerts[a].timestamp < alerts[b].timestamp

\* C21 witness: the frame at 10 s gives two accepted observations, and so two
\* alerts with the timestamp 10
C21_Witness ==
    /\ video.den = 10
    /\ Len(alerts) = 2
    /\ alerts[1].frame_number = 1 /\ alerts[2].frame_number = 1
    /\ alerts[1].timestamp = 10 /\ alerts[2].timestamp = 10

\* C22: the k-th alert of the session carries the identifier
\* '<session_id>_<k>', and no two alerts of the session share an identifier.
C22_AlertIdsUnique ==
    /\ \A k \in 1..Len(alerts) :
          alerts[k].violation_id = <<SessionId, "_">> \o str(k)
    /\ \A a \in 1..Len(alerts), b \in 1..Len(alerts) :
          a # b => alerts[a].violation_id # alerts[b].violation_id

\* C22 witness: three alerts, 's1_1', 's1_2' and 's1_3', the third on a later
\* frame than the first two
C22_Witness ==
    /\ Len(alerts) = 3
    /\ alerts[1].violation_id = <<"s1", "_", "1">>
    /\ alerts[2].violation_id = <<"s1", "_", "2">>
    /\ alerts[3].violation_id = <<"s1", "_", "3">>
    /\ alerts[3].frame_number > alerts[1].frame_number

\* the frame n has been read and found on the sampling stride, and the task
\* is past the on_progress call for it
Sampled(n) ==
    /\ frames_per_analysis > 0
    /\ n < video.total_frames
    /\ n % frames_per_analysis = 0
    /\ \/ n < frame_number
       \/ n = frame_number /\ pc \in {"analyze", "observation", "clip", "emit"}

\* the on_progress calls made for frame n
ProgressCallsFor(n) == {i \in 1..Len(progress_calls) : progress_calls[i].frame = n}

\* C23: every frame sampled so far has exactly one on_progress call, made
\* with the frame's timestamp, the video's duration and the frame's index; and
\* no on_progress call is for any other frame.
C23_ProgressOncePerSampledFrame ==
    /\ \A n \in 0..MaxFrames :
          Sampled(n) =>
             /\ Cardinality(ProgressCallsFor(n)) = 1
             /\ \A i \in ProgressCallsFor(n) :
                   progress_calls[i] =
                       [timestamp |-> n * video.den,
                        duration |-> video.total_frames * video.den,
                        frame |-> n]
    /\ \A i \in 1..Len(progress_calls) : Sampled(progress_calls[i].frame)

\* C23 witness: a two-frame video sampled every second frame; the recognizer
\* or the mapper failed on frame 0, frame 1 was read and not sampled, and
\* on_progress was called once, for frame 0
C23_Witness ==
    /\ pc = "done" /\ exhausted
    /\ frames_per_analysis = 2 /\ video.total_frames = 2
    /\ failures # << >>
    /\ progress_calls = <<[timestamp |-> 0, duration |-> 20, frame |-> 0]>>

\* the accepted should_alert calls of the session, in order
AcceptedCalls == SelectSeq(calls, LAMBDA c : c.op = "should_alert" /\ c.result)

\* C24: the alerts handed to the violation callback are, in order, those of
\* the observations the deduplicator accepted, one each, built from the
\* observation and its frame; the observation being dealt with is the only
\* accepted one without its callback yet; the monitor's counter counts the
\* accepted observations; so no callback is made for a suppressed observation.
C24_ViolationCallbackOncePerAccepted ==
    /\ violations_detected = Len(AcceptedCalls)
    /\ Len(alerts) =
          Len(AcceptedCalls) - (IF pc \in {"clip", "emit"} THEN 1 ELSE 0)
    /\ \A k \in 1..Len(alerts) :
          /\ alerts[k].hazard_type = AcceptedCalls[k].hazard_type
          /\ alerts[k].location = AcceptedCalls[k].location
          /\ alerts[k].timestamp = AcceptedCalls[k].ts

\* C24 witness: on the frame at 10 s one observation is suppressed and the
\* other accepted; two accepted observations in all, two callbacks
C24_Witness ==
    /\ Len(calls) = 3 /\ Len(alerts) = 2
    /\ calls[1].result /\ ~calls[2].result /\ calls[3].result
    /\ calls[2].ts = 10 /\ calls[3].ts = 10
    /\ alerts[2].timestamp = 10
    /\ pc = "done"

\* C25: the frame index grows by one at a time; the frames handed to the
\* recognizer are, in order, the multiples of the stride; a session left to
\* itself ends with every frame of the source read and ceil(N / stride)
\* frames sampled; and on the 900-frame source (30 s at 30 fps, 5 s interval)
\* the six sampled frames are those at 0, 5, 10, 15, 20 and 25 s.
C25_SamplingOnStride ==
    [][ /\ frame_number' \in {frame_number, frame_number + 1}
        /\ \A i \in 1..Len(reports') :
              reports'[i].frame = (i - 1) * frames_per_analysis'
        /\ pc' = "done" =>
              /\ exhausted'
              /\ frame_number' = video.total_frames
              /\ Len(reports') =
                    (video.total_frames + frames_per_analysis' - 1)
                        \div frames_per_analysis'
              /\ video.total_frames = 900 =>
                    [i \in 1..Len(progress_calls') |->
                        progress_calls'[i].timestamp] = <<0, 5, 10, 15, 20, 25>>
      ]_vars

\* C25 witness: the 30 s source walked to its end, six frames sampled
C25_Witness ==
    /\ pc = "done"
    /\ video.total_frames = 900 /\ frame_number = 900
    /\ Len(reports) = 6 /\ reports[6].frame = 750

\* fps * analysis_interval rounded to the nearest integer, halves upwards
\* (the interval is in half seconds, fps is num/den)
RoundedProduct(v, interval) == (v.num * interval + v.den) \div (2 * v.den)

\* the task is in, or past, the frame loop of a video that opened with a
\* positive frame rate
StrideComputed ==
    /\ video.opened /\ video.num > 0
    /\ pc \in {"loop", "progress", "analyze", "observation", "clip", "emit",
               "finally", "completed", "except", "cleanup", "done"}

\* C26: the stride the frame loop works with is round(fps * interval), and 1
\* where that is 0; it is never 0, and the stride test never fails the
\* session.
C26_StrideRoundedAndClamped ==
    StrideComputed =>
        /\ frames_per_analysis >= 1
        /\ frames_per_analysis =
              (IF RoundedProduct(video, analysis_interval) < 1 THEN 1
               ELSE RoundedProduct(video, analysis_interval))
        /\ exc # "ZeroDivisionError"

\* ------------------------------------------------- claims on the extractor

\* the extractor's window in seconds
ClipWindowSeconds == clip_call.duration_before + clip_call.duration_after

\* C27: the extraction starts at max(0, center - before), never before
\* timestamp 0; the frames written are consecutive source frames from the
\* start frame on and last at most before + after seconds; when the source
\* ends first the loop stops and the clip's path is returned, without error.
C27_ClipWindow ==
    [][ /\ clip_pc' # "call" =>
              /\ clip_start_time' >= 0
              /\ clip_start_time' =
                    (IF clip_call.timestamp > clip_call.duration_before
                     THEN clip_call.timestamp - clip_call.duration_before
                     ELSE 0)
              /\ clip_pos' >= 0
        /\ \A k \in 1..Len(clip_written') :
              /\ clip_written'[k] * video.den
                    >= clip_start_time' * video.num - (video.den - 1)
              /\ clip_written'[k] = clip_written'[1] + (k - 1)
              /\ clip_written'[k] < video.total_frames
        /\ Len(clip_written') * video.den <= ClipWindowSeconds * video.num
        /\ (clip_pc = "copy" /\ ~ClipReadable) =>
              (clip_pc' = "release" /\ clip_exc' = "none")
        /\ (clip_pc' = "done" /\ clip_exc' = "none") =>
              /\ clip_result' = "clip"
              /\ \/ Len(clip_written') = clip_frames_to_write'
                 \/ clip_pos' >= video.total_frames
      ]_vars

\* the center lies inside the before window, and the source ended before the
\* window did: a shortened clip was returned
C27_Witness ==
    /\ clip_pc = "done" /\ clip_result = "clip"
    /\ clip_call.timestamp = 1 /\ clip_call.duration_before = 15
    /\ clip_start_time = 0
    /\ video.total_frames = 4 /\ Len(clip_written) = 4
    /\ clip_frames_to_write = 30

\* C28: when the extractor has returned, the capture it constructed and its
\* writer, if constructed, have been released, on the error path too.
C28_HandlesReleased ==
    clip_pc = "done" => (clip_cap # "open" /\ clip_out # "open")

\* a websocket endpoint ran manager.disconnect for websocket w in this step
EndpointDisconnected(w) == ws_state[w] = "closed" /\ ws_state'[w] = "gone"

\* C29: disconnect(observer, session_id) for an observer that is not
\* subscribed to the session (pruned by a broadcast before its own endpoint
\* unsubscribes it) leaves the registry unchanged and does not raise.
C29_UnsubscribeAbsentIsSafe ==
    [][ \A w \in Sockets :
           (EndpointDisconnected(w)
               /\ ~Contains(Subscribers(active_connections, SessionId), w)) =>
              /\ active_connections' = active_connections
              /\ w \notin endpoint_exc'
      ]_vars

\* --------------------------------------------------- claims on the counts

\* C30: the violation count on the session row is the number of violation
\* callbacks that have run; the violations_count of a "completed" message is
\* the monitor's own count of accepted observations, and the number of alerts
\* it handed over.
C30_CountsConsistent ==
    /\ session.violations_detected_count = Len(alerts)
    /\ \A i \in 1..Len(broadcasts) :
          broadcasts[i].type = "completed" =>
             /\ broadcasts[i].n = violations_detected
             /\ broadcasts[i].n = Len(alerts)
             /\ broadcasts[i].n = Len(AcceptedCalls)

\* a session completed after two alerts, and its message says 2
C30_Witness ==
    /\ session.status = "completed"
    /\ Len(alerts) = 2
    /\ \E i \in 1..Len(broadcasts) :
          broadcasts[i].type = "completed" /\ broadcasts[i].n = 2

====
